---- MODULE Spec2Model ----
(***************************************************************************)
(* Approval workflow engine of the quote router                            *)
(* (src/src/server/api/routers/quote.ts).                                  *)
(*                                                                         *)
(* The store holds one quote, its approval workflow and the workflow's     *)
(* step rows.  Every handler of the router addresses a single quoteId and  *)
(* reads and writes only the rows of that quote, so one quote carries the  *)
(* whole behaviour of the engine.                                          *)
(*                                                                         *)
(* Specification Spec runs createQuote, approveNextForRole and setWorkflow  *)
(* calls statement by statement: a call gives way to the other calls at    *)
(* every await, and its transaction runs under the store's default         *)
(* isolation, READ COMMITTED.  Every new Date() of a transaction is a step *)
(* of its own: it is evaluated by the handler after the statement before   *)
(* it has returned and before the statement after it reaches the store.    *)
(* Up to two transactions are in flight at a time.                         *)
(* Specification SpecConc runs approveNextForRole calls alone, statement    *)
(* by statement, on the store a createQuote call has left.                 *)
(* Specification SpecCreate follows one createQuote call with its whole    *)
(* input (package, prices, discount, payment terms) from entry to return,  *)
(* its workflow transaction statement by statement as in Spec.             *)
(* Specification SpecSimilar runs one findSimilarQuotes query against a    *)
(* store of quotes.                                                        *)
(* Specification SpecHelpers runs recomputeWorkflowGating and              *)
(* updateQuoteStatus repeatedly, statement by statement, on every stored   *)
(* step list.                                                              *)
(* Specification SpecQueue runs pendingByRole queries and approvals,       *)
(* statement by statement, on the store that createQuote and one           *)
(* setWorkflow call with a longer step list have left.                     *)
(***************************************************************************)
EXTENDS Integers, Sequences, FiniteSets, TLC

\* --------------------------------------------------------------- bounds
\* Longest step list a setWorkflow call carries.
MaxEditLen == 2
\* Most quotes a store holds besides a full page of results.
MaxExtra == 2
\* Longest step list the two helpers are run on, and longest step list of
\* the setWorkflow call of SpecQueue.
MaxSteps == 3
\* Most approveNextForRole and setWorkflow transactions a behaviour of Spec
\* or SpecQueue begins.
MaxCalls == 2

\* ------------------------------------------------------- program types
\* enum Role
Roles == {"AE", "DEALDESK", "CRO", "FINANCE", "LEGAL"}
\* enum ApprovalStatus
ApprovalStatuses == {"Waiting", "Pending", "Approved", "Rejected"}
\* enum PaymentKind
PaymentKinds == {"NET", "PREPAY", "BOTH"}
\* The personas the setWorkflow call of SpecQueue puts into its step list.
EditPersonas == {"AE", "LEGAL"}
\* A timestamp column (approvedAt, updatedAt) holds null, or the instant a
\* new Date() returned: the present instant, or one that has passed since.
NoTime == "null"
Now == "now"
Past == "past"
\* What the store keeps in a nullable timestamp column of a step row that
\* the data of its create does not name.  The schema of the table is not
\* part of src/; the value is the one the specification gives a step that
\* was never Pending (updatedAt) and never approved (approvedAt), and the
\* one the readers of the column expect (step.updatedAt ?? q.createdAt).
ColumnDefault == NoTime

\* A row of the approvalStep table.
Step(order, persona, status, approvedAt, updatedAt) ==
    [stepOrder |-> order, persona |-> persona, status |-> status,
     approvedAt |-> approvedAt, updatedAt |-> updatedAt]

\* ------------------------------------------------------------- helpers
RECURSIVE InsertByOrder(_, _)
InsertByOrder(st, sorted) ==
    IF sorted = <<>> THEN <<st>>
    ELSE IF st.stepOrder < Head(sorted).stepOrder THEN <<st>> \o sorted
    ELSE <<Head(sorted)>> \o InsertByOrder(st, Tail(sorted))

\* orderBy: { stepOrder: "asc" }
RECURSIVE OrderByStepOrder(_)
OrderByStepOrder(rows) ==
    IF rows = <<>> THEN <<>>
    ELSE InsertByOrder(rows[Len(rows)],
                       OrderByStepOrder(SubSeq(rows, 1, Len(rows) - 1)))

\* steps.some((s) => s.status === status)
SomeStatus(steps, status) == \E i \in 1..Len(steps) : steps[i].status = status

\* steps.findIndex((s) => s.status !== Approved), 1-based; 0 stands for -1.
firstNonApprovedIndex(steps) ==
    IF \A i \in 1..Len(steps) : steps[i].status = "Approved" THEN 0
    ELSE CHOOSE i \in 1..Len(steps) :
            /\ steps[i].status # "Approved"
            /\ \A j \in 1..(i - 1) : steps[j].status = "Approved"

\* Mutant of nextPendingIndex: a step still Waiting counts as the next one.
nextPendingIndex_OrWaiting(steps) ==
    IF ~\E i \in 1..Len(steps) : steps[i].status \in {"Pending", "Waiting"} THEN 0
    ELSE CHOOSE i \in 1..Len(steps) :
            /\ steps[i].status \in {"Pending", "Waiting"}
            /\ \A j \in 1..(i - 1) : steps[j].status \notin {"Pending", "Waiting"}

\* steps.find((s) => s.status === Pending), as a 1-based index; 0: undefined.
nextPendingIndex(steps) ==
    IF ~SomeStatus(steps, "Pending") THEN 0
    ELSE CHOOSE i \in 1..Len(steps) :
            /\ steps[i].status = "Pending"
            /\ \A j \in 1..(i - 1) : steps[j].status # "Pending"

\* -------------------------------------------------- recomputeWorkflowGating
\* Mutant of GateStep: a gating run that promotes the first open step but
\* leaves every other step as it finds it.
GateStep_NoDemotion(st, isFirstNonApproved, now) ==
    IF st.status = "Approved" \/ ~isFirstNonApproved THEN st
    ELSE IF st.status # "Pending"
         THEN [st EXCEPT !.status = "Pending", !.updatedAt = now]
         ELSE IF st.updatedAt = NoTime THEN [st EXCEPT !.updatedAt = now] ELSE st

\* Mutant of GateStep: the Pending step is stamped on every run.
GateStep_Restamp(st, isFirstNonApproved, now) ==
    IF st.status = "Approved" THEN st
    ELSE IF isFirstNonApproved
         THEN [st EXCEPT !.status = "Pending", !.updatedAt = now]
         ELSE IF st.status # "Waiting"
              THEN [st EXCEPT !.status = "Waiting", !.updatedAt = NoTime]
              ELSE st

\* Mutant of GateStep: a demoted step keeps its gating timestamp.
GateStep_KeepStamp(st, isFirstNonApproved, now) ==
    IF st.status = "Approved" THEN st
    ELSE LET desired == IF isFirstNonApproved THEN "Pending" ELSE "Waiting"
         IN IF st.status # desired
            THEN IF desired = "Pending"
                 THEN [st EXCEPT !.status = desired, !.updatedAt = now]
                 ELSE [st EXCEPT !.status = desired]
            ELSE IF desired = "Pending" /\ st.updatedAt = NoTime
                 THEN [st EXCEPT !.updatedAt = now]
                 ELSE st

\* The body of the gating loop for one step.
GateStep(st, isFirstNonApproved, now) ==
    IF st.status = "Approved" THEN st
    ELSE LET desired == IF isFirstNonApproved THEN "Pending" ELSE "Waiting"
         IN IF st.status # desired
            THEN IF desired = "Pending"
                 THEN [st EXCEPT !.status = desired, !.updatedAt = now]
                 ELSE [st EXCEPT !.status = desired, !.updatedAt = NoTime]
            ELSE IF desired = "Pending" /\ st.updatedAt = NoTime
                 THEN [st EXCEPT !.updatedAt = now]
                 ELSE st

\* recomputeWorkflowGating(tx, quoteId): the step rows it leaves behind.
recomputeWorkflowGating(wf, rows, now) ==
    LET steps == OrderByStepOrder(rows)
        f == firstNonApprovedIndex(steps)
    IN IF ~wf THEN rows
       ELSE IF Len(steps) = 0 THEN rows
       ELSE IF SomeStatus(steps, "Rejected") THEN rows
       ELSE IF f = 0 THEN rows
       ELSE [i \in 1..Len(steps) |-> GateStep(steps[i], i = f, now)]

\* -------------------------------------------------------- updateQuoteStatus
\* Mutant of DerivedStatus: a Pending step outweighs a Rejected one.
DerivedStatus_PendingFirst(steps) ==
    IF Len(steps) = 0 THEN "Approved"
    ELSE IF SomeStatus(steps, "Pending") THEN "Pending"
    ELSE IF SomeStatus(steps, "Rejected") THEN "Rejected"
    ELSE "Approved"

\* The status the derivation computes from the steps (newStatus).
DerivedStatus(steps) ==
    IF Len(steps) = 0 THEN "Approved"
    ELSE IF SomeStatus(steps, "Rejected") THEN "Rejected"
    ELSE IF SomeStatus(steps, "Pending") THEN "Pending"
    ELSE "Approved"

\* Mutant of updateQuoteStatus: the derivation without its Sold guard.
updateQuoteStatus_NoSoldGuard(status, wf, rows) ==
    DerivedStatus(IF wf THEN rows ELSE <<>>)

\* updateQuoteStatus(tx, quoteId): the Quote.status it leaves stored.
updateQuoteStatus(status, wf, rows) ==
    IF status = "Sold" THEN "Sold"
    ELSE DerivedStatus(IF wf THEN rows ELSE <<>>)

\* ------------------------------------------------------------- the store
VARIABLES
    quoteStatus,  \* Quote.status of the quote; "Absent" before quote.create
    wfExists,     \* whether the quote's approvalWorkflow row exists
    steps,        \* the approvalStep rows of that workflow
    creating,     \* the createQuote call in flight: its position and its chain
    last,         \* the handler call that ran last and how it ended
    hist,         \* since the workflow was initialized: untouched by edits,
                  \* length of the chain, successful approvals; whether a
                  \* setWorkflow call has committed; the calls begun
    txs,          \* the transactions in flight
    call          \* SpecCreate, SpecSimilar: the handler call that is traced,
                  \* its input and what it has computed so far

vars == <<quoteStatus, wfExists, steps, creating, last, hist, txs, call>>

\* What a handler reads and writes, as one value.
Db(status, wf, rows) == [status |-> status, wf |-> wf, rows |-> rows]

\* A handler's outcome: the store it leaves and the error it raised, if any.
Done(db) == [db |-> db, err |-> "none"]
\* throw new Error(...) inside $transaction: the transaction rolls back.
Throw(db, err) == [db |-> db, err |-> err]

\* ------------------------------------------------------ approveNextForRole
\* Mutant of ApproveWrites: the status is derived before the gating run.
ApproveWrites_StatusBeforeGating(db, steps0, p, now) ==
    LET updated == [steps0 EXCEPT ![p].status = "Approved", ![p].approvedAt = now]
        gated == recomputeWorkflowGating(TRUE, updated, now)
    IN Db(updateQuoteStatus(db.status, TRUE, updated), TRUE, gated)

\* Mutant of ApproveWrites: the gating run is left out.
ApproveWrites_NoGating(db, steps0, p, now) ==
    LET updated == [steps0 EXCEPT ![p].status = "Approved", ![p].approvedAt = now]
    IN Db(updateQuoteStatus(db.status, TRUE, updated), TRUE, updated)

\* The writes of a successful approval: the step update, the gating run and
\* the status derivation.
ApproveWrites(db, steps0, p, now) ==
    LET updated == [steps0 EXCEPT ![p].status = "Approved", ![p].approvedAt = now]
        gated == recomputeWorkflowGating(TRUE, updated, now)
    IN Db(updateQuoteStatus(db.status, TRUE, gated), TRUE, gated)

\* Mutant of approveNextForRole: the persona of the pending step is not
\* compared with the role.
approveNextForRole_NoRoleCheck(db, role, now) ==
    IF ~db.wf THEN Throw(db, "workflow_not_found")
    ELSE LET steps0 == OrderByStepOrder(db.rows)
             p == nextPendingIndex(steps0)
         IN IF p = 0 THEN Throw(db, "no_pending_step")
            ELSE Done(ApproveWrites(db, steps0, p, now))

approveNextForRole(db, role, now) ==
    IF ~db.wf THEN Throw(db, "workflow_not_found")
    ELSE LET steps0 == OrderByStepOrder(db.rows)
             p == nextPendingIndex(steps0)
         IN IF p = 0 THEN Throw(db, "no_pending_step")
            ELSE IF steps0[p].persona # role THEN Throw(db, "role_mismatch")
            ELSE Done(ApproveWrites(db, steps0, p, now))

\* ------------------------------------------------------------- setWorkflow
\* One element of input.steps of a setWorkflow call of Spec; status "none"
\* is an omitted status.  The calls name one persona: the engine only ever
\* compares a persona with the role of an approval.
StepInputs == [persona : {"LEGAL"}, status : ApprovalStatuses \cup {"none"}]

\* Mutant of EditedStep: the steps are numbered from 0.
EditedStep_FromZero(s, i, now) ==
    Step(i - 1, s.persona,
         IF s.status = "none" THEN "Waiting" ELSE s.status,
         NoTime,
         IF s.status = "Pending" THEN now ELSE NoTime)

\* The approvalStep.create of the loop, for element i.
EditedStep(s, i, now) ==
    Step(i, s.persona,
         IF s.status = "none" THEN "Waiting" ELSE s.status,
         ColumnDefault,
         IF s.status = "Pending" THEN now ELSE NoTime)

setWorkflow(db, input, now) ==
    LET created == [i \in 1..Len(input) |-> EditedStep(input[i], i, now)]
        gated == recomputeWorkflowGating(TRUE, created, now)
    IN Done(Db(updateQuoteStatus(db.status, TRUE, gated), TRUE, gated))

\* ------------------------------------------------------------- createQuote
\* The chain with the tier limits 15 and 40 falling in the upper tier.
buildApprovalChain_UpperTier(discountPercent, paymentKind, netDays) ==
    <<"AE">>
    \o (IF discountPercent > 0 /\ discountPercent < 15 THEN <<"DEALDESK">>
        ELSE IF discountPercent >= 15 /\ discountPercent < 40 THEN <<"CRO">>
        ELSE IF \/ discountPercent >= 40
                \/ paymentKind = "BOTH"
                \/ (paymentKind = "NET" /\ netDays >= 60)
             THEN <<"FINANCE">>
             ELSE <<>>)
    \o <<"LEGAL">>

\* The chain with FINANCE appended for a bespoke deal whatever the tier gave.
buildApprovalChain_AppendFinance(discountPercent, paymentKind, netDays) ==
    <<"AE">>
    \o (IF discountPercent > 0 /\ discountPercent <= 15 THEN <<"DEALDESK">>
        ELSE IF discountPercent > 15 /\ discountPercent <= 40 THEN <<"CRO">>
        ELSE IF discountPercent > 40 THEN <<"FINANCE">>
        ELSE <<>>)
    \o (IF paymentKind = "BOTH" \/ (paymentKind = "NET" /\ netDays >= 60)
        THEN <<"FINANCE">> ELSE <<>>)
    \o <<"LEGAL">>

buildApprovalChain(discountPercent, paymentKind, netDays) ==
    <<"AE">>
    \o (IF discountPercent > 0 /\ discountPercent <= 15 THEN <<"DEALDESK">>
        ELSE IF discountPercent > 15 /\ discountPercent <= 40 THEN <<"CRO">>
        ELSE IF \/ discountPercent > 40
                \/ paymentKind = "BOTH"
                \/ (paymentKind = "NET" /\ netDays >= 60)
             THEN <<"FINANCE">>
             ELSE <<>>)
    \o <<"LEGAL">>

\* The validation without the checks of BOTH.
PaymentTermsError_NetOnly(paymentKind, netDays, hasPrepayPercent) ==
    paymentKind = "NET" /\ netDays = 0

\* The payment-term validation; netDays 0 stands for an absent netDays.
PaymentTermsError(paymentKind, netDays, hasPrepayPercent) ==
    IF paymentKind = "NET" THEN netDays = 0
    ELSE IF paymentKind = "PREPAY" THEN FALSE
    ELSE netDays = 0 \/ ~hasPrepayPercent

\* The workflow transaction of createQuote run alone: approvedAt is the new
\* Date() in the data of the AE step's create, now the one of the gating
\* run that follows the creates.
createWorkflow(db, chain, approvedAt, now) ==
    LET created == [i \in 1..Len(chain) |->
                       IF i = 1 THEN Step(1, "AE", "Approved", approvedAt, ColumnDefault)
                       ELSE Step(i, chain[i], "Waiting", ColumnDefault, ColumnDefault)]
        gated == recomputeWorkflowGating(TRUE, created, now)
    IN Done(Db(updateQuoteStatus(db.status, TRUE, gated), TRUE, gated))

\* The netDays column written as the call gave it.
storedNetDays_AsGiven(paymentKind, netDays) == netDays

\* The netDays column quote.create writes; 0 stands for null.
storedNetDays(paymentKind, netDays) ==
    IF paymentKind # "PREPAY" THEN netDays ELSE 0

\* prepayPercent of a call that gives none, and of a row that holds null.
NoPercent == -1
\* The prepayPercent a PREPAY or BOTH row gets when the call gives none.
FullPrepay == 100
\* The prepayPercent column quote.create writes.
storedPrepayPercent(paymentKind, prepayPercent) ==
    IF paymentKind # "NET"
    THEN (IF prepayPercent # NoPercent THEN prepayPercent ELSE FullPrepay)
    ELSE NoPercent

\* Pricing.  A price is a Decimal(.., 2) column and is counted in cents; the
\* Number products of the handler are counted in hundredths of a cent, the
\* unit in which subtotal * (1 - discount / 100) is exact.
PerCent == 100
RECURSIVE addOnSum(_)
addOnSum(prices) ==
    IF prices = <<>> THEN 0 ELSE Head(prices) + addOnSum(Tail(prices))
\* The subtotal with the add-ons charged per seat.
subtotalNum_AddOnsPerSeat(packageUnit, seats, addOns) ==
    ((packageUnit + addOnSum(addOns)) * seats) * PerCent
\* subtotalNum, in hundredths of a cent.
subtotalNum(packageUnit, seats, addOns) ==
    (packageUnit * seats + addOnSum(addOns)) * PerCent
\* totalNum, in hundredths of a cent.
totalNum(subtotal, discountPctNum) ==
    (subtotal \div PerCent) * (PerCent - discountPctNum)
\* toCurrency(n) = Number(n.toFixed(2)): the cents nearest to n.  The
\* handler computes n in binary floating point, where an amount that ends in
\* exactly half a cent has no representation: the double stands just below or
\* just above it and toFixed rounds to that side (0.01 + 10.00 at 50% gives
\* 5.00, 0.05 at 50% gives 0.03), so either neighbour can be the outcome.
toCurrency(n) ==
    LET cents == n \div PerCent
        rest == n % PerCent
    IN IF 2 * rest < PerCent THEN {cents}
       ELSE IF 2 * rest > PerCent THEN {cents + 1}
       ELSE {cents, cents + 1}

\* ------------------------------------------------------------ input sets
\* Discounts on both sides of every tier boundary of buildApprovalChain.
Discounts == {0, 10, 15, 16, 40, 41, 100}
\* netDays: absent (0), below and at the bespoke threshold.
NetDaysInputs == {0, 30, 60}
\* input.steps of setWorkflow, up to MaxEditLen elements.
EditInputs == UNION {[1..n -> StepInputs] : n \in 0..MaxEditLen}

\* ------------------------------------------------------------------ Init
NoCall == [pc |-> "idle", chain |-> <<>>]
NoHist == [pristine |-> FALSE, n |-> 0, approvals |-> 0, edited |-> FALSE, calls |-> 0]
Called(op, err) == [op |-> op, err |-> err]
\* No handler call is traced.
NoRequest == [op |-> "none"]

\* The transactions in flight at a time.
Txs == {1, 2}

\* A step row as stored: with its primary key.
WithId(row, id) ==
    [id |-> id, stepOrder |-> row.stepOrder, persona |-> row.persona,
     status |-> row.status, approvedAt |-> row.approvedAt,
     updatedAt |-> row.updatedAt]
IdsOf(rows) == {rows[i].id : i \in 1..Len(rows)}
RowOf(rows, id) == rows[CHOOSE i \in 1..Len(rows) : rows[i].id = id]

\* No transaction.  kind: the handler; pc: the statement it runs next;
\* todo: how many elements of input.steps setWorkflow has still to create;
\* now: the new Date() the handler has evaluated for the statements it
\* issues next; target: the id of nextPending, or the row a waiting
\* deleteMany waits for; plan: the updates the gating loop has still to
\* issue; derived: newStatus; wf: it has created the workflow
\* row; targets: the rows a waiting deleteMany has selected and not yet
\* met; deleted, updated, inserted: the step rows it has written; status:
\* the Quote.status it has written.
NoTx == [kind |-> "none", pc |-> "idle", role |-> "none", todo |-> 0,
         now |-> NoTime, target |-> 0, plan |-> <<>>, derived |-> "none",
         wf |-> FALSE, targets |-> {}, deleted |-> {}, updated |-> <<>>,
         inserted |-> <<>>, status |-> "none"]
NoTxs == [t \in Txs |-> NoTx]

\* The store before any quote was created.
Init ==
    /\ quoteStatus = "Absent"
    /\ wfExists = FALSE
    /\ steps = <<>>
    /\ creating = NoCall
    /\ last = Called("none", "none")
    /\ hist = NoHist
    /\ txs = NoTxs
    /\ call = NoRequest

CurrentDb == Db(quoteStatus, wfExists, steps)

\* The store takes the value a handler left.
Store(db) ==
    /\ quoteStatus' = db.status
    /\ wfExists' = db.wf
    /\ steps' = db.rows

\* The id of the quote of the store.
TheQuote == "quote"

\* pendingByRole({role}): the quotes with status Pending whose first Pending
\* step in stepOrder has persona role.
pendingByRole(db, role) ==
    LET steps0 == IF db.wf THEN OrderByStepOrder(db.rows) ELSE <<>>
        firstPending == nextPendingIndex(steps0)
    IN IF db.status = "Pending" /\ firstPending # 0
          /\ steps0[firstPending].persona = role
       THEN {TheQuote}
       ELSE {}

\* ---------------------------------------------------------- transactions
\* approveNextForRole, setWorkflow and the workflow initialization of
\* createQuote each run their statements inside ctx.db.$transaction(async
\* (tx) => ...).  No isolation level is passed, so the transactions run at
\* the store's default, PostgreSQL's READ COMMITTED: every awaited statement
\* reads the rows committed when it runs plus the transaction's own writes;
\* a write to a row that another transaction has written waits until that
\* transaction ends and then applies to the committed row, or finds it gone;
\* nothing a transaction writes is visible to others before it commits.
\* Between two awaited statements of a call the event loop runs statements
\* of other calls.  The variables quoteStatus, wfExists and steps hold the
\* committed rows; txs holds the transactions in flight.

\* A caller's transaction takes the first slot that is free.
FreeSlot(t) ==
    /\ txs[t].pc = "idle"
    /\ \A u \in Txs : u < t => txs[u].pc # "idle"

\* The committed rows transaction t has locked by writing them.
RowsLockedBy(t) == txs[t].deleted \cup DOMAIN txs[t].updated
LockedByOther(t, ids) ==
    \E u \in Txs \ {t} : ids \cap RowsLockedBy(u) # {}
QuoteLockedByOther(t) == \E u \in Txs \ {t} : txs[u].status # "none"

\* What a statement of transaction t reads.
ViewWf(t) == wfExists \/ txs[t].wf
ViewRows(t) ==
    LET kept == SelectSeq(steps, LAMBDA r : r.id \notin txs[t].deleted)
    IN [i \in 1..Len(kept) |->
           IF kept[i].id \in DOMAIN txs[t].updated
           THEN txs[t].updated[kept[i].id]
           ELSE kept[i]]
       \o txs[t].inserted

\* Transaction record tx after it has written row.
WriteRow(tx, row) ==
    IF row.id \in IdsOf(tx.inserted)
    THEN [tx EXCEPT !.inserted =
             [i \in 1..Len(tx.inserted) |->
                 IF tx.inserted[i].id = row.id THEN row ELSE tx.inserted[i]]]
    ELSE [tx EXCEPT !.updated =
             [id \in DOMAIN tx.updated \cup {row.id} |->
                 IF id = row.id THEN row ELSE tx.updated[id]]]

\* The ids that rows or transactions hold; a created row gets an id that
\* none of them holds.
HeldIds ==
    IdsOf(steps)
    \cup UNION {RowsLockedBy(t) \cup IdsOf(txs[t].inserted) \cup txs[t].targets
                \cup {txs[t].target}
                \cup {txs[t].plan[i].id : i \in 1..Len(txs[t].plan)} : t \in Txs}
NewId == CHOOSE id \in 1..(Cardinality(HeldIds) + 1) :
            /\ id \notin HeldIds
            /\ \A smaller \in 1..(id - 1) : smaller \in HeldIds

\* orderBy: { stepOrder: "asc" }: every order of the rows that is ascending
\* in stepOrder; rows with equal stepOrder come in either order.
RemoveAt(rows, i) == SubSeq(rows, 1, i - 1) \o SubSeq(rows, i + 1, Len(rows))
RECURSIVE AscendingOrders(_)
AscendingOrders(rows) ==
    IF rows = <<>> THEN {<<>>}
    ELSE UNION {{<<rows[i]>> \o rest : rest \in AscendingOrders(RemoveAt(rows, i))} :
                  i \in {k \in 1..Len(rows) :
                            \A j \in 1..Len(rows) :
                                rows[k].stepOrder <= rows[j].stepOrder}}

\* The transaction of t ends with an error: ROLLBACK, and the call rejects.
Rollback(t, err) ==
    /\ txs' = [txs EXCEPT ![t] = NoTx]
    /\ last' = Called(txs[t].kind, err)
    /\ creating' = IF txs[t].kind = "createQuote"
                   THEN [pc |-> "failed", chain |-> <<>>]
                   ELSE creating
    /\ UNCHANGED <<quoteStatus, wfExists, steps, hist, call>>
\* A statement of t has run without touching the committed rows.
Proceed(t, tx) ==
    /\ txs' = [txs EXCEPT ![t] = tx]
    /\ UNCHANGED <<quoteStatus, wfExists, steps, creating, last, hist, call>>
\* A call has begun transaction t and run its first statement.
Begin(t, tx) ==
    /\ hist.calls < MaxCalls
    /\ txs' = [txs EXCEPT ![t] = tx]
    /\ hist' = [hist EXCEPT !.calls = @ + 1]
    /\ UNCHANGED <<quoteStatus, wfExists, steps, creating, last, call>>

\* --------------------------------------------------------------- actions
\* Time passes: the instants written so far are no longer the present one.
Aged(t) == IF t = Now THEN Past ELSE t
AgedRowsOf(rows) ==
    [i \in DOMAIN rows |->
        [rows[i] EXCEPT !.approvedAt = Aged(@), !.updatedAt = Aged(@)]]
AgedTx(tx) ==
    [tx EXCEPT !.now = Aged(@),
               !.updated = AgedRowsOf(tx.updated),
               !.inserted = AgedRowsOf(tx.inserted)]
Tick ==
    /\ \/ AgedRowsOf(steps) # steps
       \/ \E t \in Txs : AgedTx(txs[t]) # txs[t]
    /\ steps' = AgedRowsOf(steps)
    /\ txs' = [t \in Txs |-> AgedTx(txs[t])]
    /\ UNCHANGED <<quoteStatus, wfExists, creating, last, hist, call>>

\* createQuote returns a validation_error before anything is persisted.
CreateQuoteInvalid ==
    \E kind \in PaymentKinds, netDays \in NetDaysInputs, hasPrepay \in BOOLEAN :
        /\ creating.pc = "idle"
        /\ PaymentTermsError(kind, netDays, hasPrepay)
        /\ last' = Called("createQuote", "validation_error")
        /\ UNCHANGED <<quoteStatus, wfExists, steps, creating, hist, txs, call>>

\* createQuote up to quote.create: the quote is persisted with status Pending
\* and no workflow; the call then awaits the contract generator.
CreateQuotePersist ==
    \E discount \in Discounts, kind \in PaymentKinds,
       netDays \in NetDaysInputs, hasPrepay \in BOOLEAN :
        /\ creating.pc = "idle"
        /\ ~PaymentTermsError(kind, netDays, hasPrepay)
        /\ quoteStatus' = "Pending"
        /\ creating' = [pc |-> "persisted",
                        chain |-> buildApprovalChain(discount, kind, netDays)]
        /\ last' = Called("quote.create", "none")
        /\ UNCHANGED <<wfExists, steps, hist, txs, call>>

\* createQuote: quote.update({ data: { documentHtml } }) once the contract
\* generator has answered; it writes the quote row.
CreateQuoteContract ==
    /\ creating.pc = "persisted"
    /\ \A t \in Txs : txs[t].status = "none"
    /\ creating' = [creating EXCEPT !.pc = "contracted"]
    /\ last' = Called("quote.update", "none")
    /\ UNCHANGED <<quoteStatus, wfExists, steps, hist, txs, call>>

\* The statement after findUnique({ where: { quoteId } }): the workflow's
\* id if it has found one, else approvalWorkflow.create.
AfterFindWorkflow(t) == IF ViewWf(t) THEN "deleteMany" ELSE "createWorkflow"

\* createQuote: the workflow transaction begins; approvalWorkflow.findUnique.
CreateQuoteFind(t) ==
    /\ creating.pc = "contracted"
    /\ FreeSlot(t)
    /\ txs' = [txs EXCEPT ![t] =
                 [NoTx EXCEPT !.kind = "createQuote", !.pc = AfterFindWorkflow(t)]]
    /\ creating' = [creating EXCEPT !.pc = "workflow"]
    /\ UNCHANGED <<quoteStatus, wfExists, steps, last, hist, call>>

\* setWorkflow({quoteId, steps}) for the quote, which exists from
\* quote.create on: the transaction begins; approvalWorkflow.findUnique.
\* The call carries a list of n steps; its elements are read by the loop of
\* creates.
SetWorkflowFind(t) ==
    \E n \in 0..MaxEditLen :
        /\ quoteStatus # "Absent"
        /\ FreeSlot(t)
        /\ Begin(t, [NoTx EXCEPT !.kind = "setWorkflow", !.todo = n,
                                 !.pc = AfterFindWorkflow(t)])

\* approvalWorkflow.create({ data: { quoteId } }): quoteId is unique, so the
\* statement waits for a transaction that has created the row and fails if
\* the row is committed.
WorkflowCreate(t) ==
    /\ txs[t].pc = "createWorkflow"
    /\ \A u \in Txs \ {t} : ~txs[u].wf
    /\ IF wfExists
       THEN Rollback(t, "unique_constraint")
       ELSE Proceed(t, [txs[t] EXCEPT !.wf = TRUE, !.pc = "deleteMany"])

\* approvalStep.deleteMany({ where: { approvalWorkflowId } }) meets the rows
\* it has selected one by one, in the order the store keeps them, which
\* no statement fixes.  It deletes, and so locks, each row it meets; at a
\* row that another transaction has written it waits, holding the rows met
\* before.  After the last row the statement returns.
DeleteScan(t, tx, ids) ==
    LET live == ids \cap IdsOf(steps)
        locked == {id \in live : LockedByOther(t, {id})}
    IN IF locked = {}
       THEN Proceed(t, [tx EXCEPT !.deleted = @ \cup live, !.targets = {},
                                  !.target = 0,
                                  !.pc = IF tx.kind = "setWorkflow" /\ tx.todo = 0
                                         THEN "gateRead" ELSE "createNow"])
       ELSE \E row \in locked, met \in SUBSET (live \ locked) :
               Proceed(t, [tx EXCEPT !.deleted = @ \cup met, !.target = row,
                                     !.targets = live \ (met \cup {row}),
                                     !.pc = "deleteManyWaits"])

\* approvalStep.deleteMany: the statement selects the rows it reads.
DeleteMany(t) ==
    /\ txs[t].pc = "deleteMany"
    /\ DeleteScan(t, txs[t], IdsOf(ViewRows(t)))

\* The deleteMany that waited: the transaction that held the row has ended;
\* the row is deleted if it is still there, and the statement goes on with
\* the rows it has not met.  Rows committed since it began are not among
\* them.
DeleteManyResumes(t) ==
    /\ txs[t].pc = "deleteManyWaits"
    /\ ~LockedByOther(t, {txs[t].target})
    /\ DeleteScan(t, [txs[t] EXCEPT !.deleted = @ \cup ({txs[t].target} \cap IdsOf(steps))],
                  txs[t].targets)

\* The row createQuote creates for the persona at position i of its chain.
CreatedStep(chain, i, now) ==
    IF i = 1 THEN Step(1, "AE", "Approved", now, ColumnDefault)
    ELSE Step(i, chain[i], "Waiting", ColumnDefault, ColumnDefault)

\* createQuote: deleteMany has returned; the handler builds the data of the
\* AE step's create, approvedAt: new Date().
CreateQuoteNow(t) ==
    /\ txs[t].kind = "createQuote" /\ txs[t].pc = "createNow"
    /\ Proceed(t, [txs[t] EXCEPT !.now = Now, !.pc = "createSteps"])

\* createQuote: the next approvalStep.create of the chain; the AE step is
\* created first, with the approvedAt of its data.
CreateQuoteCreateStep(t) ==
    /\ txs[t].kind = "createQuote" /\ txs[t].pc = "createSteps"
    /\ LET i == Len(txs[t].inserted) + 1
       IN Proceed(t, [txs[t] EXCEPT
                         !.inserted = Append(@, WithId(CreatedStep(creating.chain, i,
                                                                   txs[t].now),
                                                       NewId)),
                         !.now = NoTime,
                         !.pc = IF i = Len(creating.chain) THEN "gateRead" ELSE @])

\* setWorkflow: deleteMany has returned; const now = new Date() before the
\* loop of creates.
SetWorkflowNow(t) ==
    /\ txs[t].kind = "setWorkflow" /\ txs[t].pc = "createNow"
    /\ Proceed(t, [txs[t] EXCEPT !.now = Now, !.pc = "createSteps"])

\* setWorkflow: the approvalStep.create of the loop for the next element of
\* input.steps, which the call reads here for the first time.
SetWorkflowCreateStep(t) ==
    \E s \in StepInputs :
        /\ txs[t].kind = "setWorkflow" /\ txs[t].pc = "createSteps"
        /\ LET i == Len(txs[t].inserted) + 1
           IN Proceed(t, [txs[t] EXCEPT
                             !.inserted = Append(@, WithId(EditedStep(s, i, txs[t].now),
                                                           NewId)),
                             !.todo = @ - 1,
                             !.now = IF txs[t].todo = 1 THEN NoTime ELSE @,
                             !.pc = IF txs[t].todo = 1 THEN "gateRead" ELSE @])

\* approveNextForRole({quoteId, role}): the transaction begins; findUnique
\* of the workflow with its steps, and the three checks.
ApproveFind(t) ==
    \E role \in Roles, steps0 \in AscendingOrders(steps) :
        /\ quoteStatus # "Absent"
        /\ FreeSlot(t)
        /\ LET r == approveNextForRole(Db(quoteStatus, wfExists, steps0), role, Now)
           IN IF r.err # "none"
              THEN /\ last' = IF call.op = "queue"
                                 THEN Called("approveNextForRole", r.err)
                                 ELSE last
                   /\ UNCHANGED <<quoteStatus, wfExists, steps, creating, hist,
                                  txs, call>>
              ELSE Begin(t, [NoTx EXCEPT
                                  !.kind = "approveNextForRole", !.pc = "updateData",
                                  !.role = role,
                                  !.target = steps0[nextPendingIndex(steps0)].id])

\* approveNextForRole: the handler builds the data of the update of
\* nextPending, { status: Approved, approvedAt: new Date() }, and issues the
\* statement.
ApproveNow(t) ==
    /\ txs[t].pc = "updateData"
    /\ Proceed(t, [txs[t] EXCEPT !.now = Now, !.pc = "update"])

\* approvalStep.update({ where: { id: nextPending.id }, data }) reaches the
\* row: it waits while another transaction has written the row, and
\* applies to the row as the transaction reads it then, with the
\* approvedAt of its data.
ApproveUpdate(t) ==
    /\ txs[t].pc = "update"
    /\ ~LockedByOther(t, {txs[t].target})
    /\ IF txs[t].target \notin IdsOf(ViewRows(t))
       THEN Rollback(t, "record_not_found")
       ELSE LET row == RowOf(ViewRows(t), txs[t].target)
            IN Proceed(t, [WriteRow(txs[t], [row EXCEPT !.status = "Approved",
                                                       !.approvedAt = txs[t].now])
                              EXCEPT !.pc = "gateRead", !.now = NoTime])

\* The instant the gating loop has not taken yet: the now of the data of
\* an update it will issue.
LoopNow == "loop"

\* The update the gating loop issues for step st: the id and the data.
\* updatedAt tells what the data says about the column: "now", "null", or
\* "keep" if the data does not name it.
GateUpdateOf(st, gated) ==
    [id |-> st.id, setStatus |-> gated.status # st.status,
     status |-> gated.status,
     updatedAt |-> IF gated.updatedAt = LoopNow THEN "now"
                   ELSE IF gated.updatedAt = NoTime THEN "null"
                   ELSE "keep"]

\* recomputeWorkflowGating: findUnique of the workflow with its steps, the
\* early returns, and which updates the loop will issue for the steps it
\* has read.
GateRead(t) ==
    \E steps0 \in AscendingOrders(ViewRows(t)) :
        /\ txs[t].pc = "gateRead"
        /\ LET gated == recomputeWorkflowGating(ViewWf(t), steps0, LoopNow)
               changed == {i \in 1..Len(steps0) : gated[i] # steps0[i]}
               plan == [i \in 1..Len(steps0) |-> GateUpdateOf(steps0[i], gated[i])]
           IN Proceed(t, [txs[t] EXCEPT
                             !.plan = SelectSeq(plan, LAMBDA u :
                                          \E i \in changed : steps0[i].id = u.id),
                             !.pc = IF changed = {} THEN "statusQuote"
                                    ELSE "gateNow"])

\* recomputeWorkflowGating: const now = new Date(), after the steps have
\* been read and before the loop.
GateNow(t) ==
    /\ txs[t].pc = "gateNow"
    /\ Proceed(t, [txs[t] EXCEPT !.now = Now, !.pc = "gateUpdate"])

\* recomputeWorkflowGating: the next approvalStep.update of the loop.
GateUpdate(t) ==
    /\ txs[t].pc = "gateUpdate"
    /\ LET u == Head(txs[t].plan)
       IN /\ ~LockedByOther(t, {u.id})
          /\ IF u.id \notin IdsOf(ViewRows(t))
             THEN Rollback(t, "record_not_found")
             ELSE LET row == RowOf(ViewRows(t), u.id)
                      written == [row EXCEPT
                                     !.status = IF u.setStatus THEN u.status ELSE @,
                                     !.updatedAt = CASE u.updatedAt = "now" -> txs[t].now
                                                     [] u.updatedAt = "null" -> NoTime
                                                     [] OTHER -> @]
                      done == Tail(txs[t].plan) = <<>>
                  IN Proceed(t, [WriteRow(txs[t], written) EXCEPT
                                    !.plan = Tail(txs[t].plan),
                                    !.now = IF done THEN NoTime ELSE @,
                                    !.pc = IF done THEN "statusQuote" ELSE @])

\* updateQuoteStatus: quote.findUnique({ select: { status } }) and the
\* return for a Sold quote.
StatusReadQuote(t) ==
    /\ txs[t].pc = "statusQuote"
    /\ Proceed(t, [txs[t] EXCEPT
                      !.pc = IF quoteStatus = "Sold"
                             THEN "commit" ELSE "statusSteps"])

\* updateQuoteStatus: approvalWorkflow.findUnique with the steps; newStatus.
StatusReadSteps(t) ==
    /\ txs[t].pc = "statusSteps"
    /\ Proceed(t, [txs[t] EXCEPT
                      !.derived = DerivedStatus(IF ViewWf(t) THEN ViewRows(t) ELSE <<>>),
                      !.pc = "statusUpdate"])

\* updateQuoteStatus: quote.update({ data: { status: newStatus } })
StatusUpdate(t) ==
    /\ txs[t].pc = "statusUpdate"
    /\ ~QuoteLockedByOther(t)
    /\ Proceed(t, [txs[t] EXCEPT !.status = txs[t].derived, !.pc = "commit"])

\* The rows for whose lock the statement of t waits, or will wait once it
\* is issued.
WaitsFor(t) ==
    CASE txs[t].pc \in {"update", "deleteManyWaits"} -> {txs[t].target}
      [] txs[t].pc = "gateUpdate" -> {Head(txs[t].plan).id}
      [] OTHER -> {}

\* Two transactions wait for a row of each other: the store ends one of
\* them with a deadlock error, its statement throws and the call rejects.
Deadlock(t) ==
    \E u \in Txs \ {t} :
        /\ WaitsFor(t) \cap RowsLockedBy(u) # {}
        /\ WaitsFor(u) \cap RowsLockedBy(t) # {}
        /\ Rollback(t, "deadlock")

\* The callback of $transaction returns: COMMIT, and the call returns.
Commit(t) ==
    /\ txs[t].pc = "commit"
    /\ steps' = ViewRows(t)
    /\ wfExists' = ViewWf(t)
    /\ quoteStatus' = IF txs[t].status # "none" THEN txs[t].status ELSE quoteStatus
    /\ txs' = [txs EXCEPT ![t] = NoTx]
    /\ last' = Called(txs[t].kind, "none")
    /\ creating' = IF txs[t].kind = "createQuote"
                   THEN [pc |-> "done", chain |-> <<>>]
                   ELSE creating
    /\ hist' = CASE txs[t].kind = "createQuote" ->
                      [hist EXCEPT !.pristine = quoteStatus' # "Sold" /\ ~hist.edited,
                                   !.n = Len(creating.chain), !.approvals = 0]
                 [] txs[t].kind = "setWorkflow" ->
                      [NoHist EXCEPT !.edited = TRUE, !.calls = hist.calls]
                 [] OTHER ->
                      IF hist.pristine THEN [hist EXCEPT !.approvals = @ + 1]
                      ELSE hist
    /\ UNCHANGED call

\* The quote is marked Sold from outside the router: an update of the quote
\* row.
MarkSold ==
    /\ creating.pc \in {"done", "failed"}
    /\ quoteStatus # "Sold"
    /\ \A t \in Txs : txs[t].status = "none"
    /\ quoteStatus' = "Sold"
    /\ last' = Called("markSold", "none")
    /\ hist' = [NoHist EXCEPT !.edited = hist.edited, !.calls = hist.calls]
    /\ UNCHANGED <<wfExists, steps, creating, txs, call>>

Next ==
    \/ Tick
    \/ CreateQuoteInvalid
    \/ CreateQuotePersist
    \/ CreateQuoteContract
    \/ MarkSold
    \/ \E t \in Txs :
          \/ CreateQuoteFind(t)
          \/ SetWorkflowFind(t)
          \/ WorkflowCreate(t)
          \/ DeleteMany(t)
          \/ DeleteManyResumes(t)
          \/ CreateQuoteNow(t)
          \/ CreateQuoteCreateStep(t)
          \/ SetWorkflowNow(t)
          \/ SetWorkflowCreateStep(t)
          \/ ApproveFind(t)
          \/ ApproveNow(t)
          \/ ApproveUpdate(t)
          \/ GateRead(t)
          \/ GateNow(t)
          \/ GateUpdate(t)
          \/ StatusReadQuote(t)
          \/ StatusReadSteps(t)
          \/ StatusUpdate(t)
          \/ Deadlock(t)
          \/ Commit(t)

Spec == Init /\ [][Next]_vars


\* ------------------------------------------------------------- properties
\* The steps as every handler reads them.
Ordered == OrderByStepOrder(steps)
NumberPending == Cardinality({i \in 1..Len(steps) : steps[i].status = "Pending"})
\* The handler call that ran last was a mutation and it completed.
MutationCompleted ==
    /\ last.op \in {"createQuote", "approveNextForRole", "setWorkflow"}
    /\ last.err = "none"

\* C1: every workflow has at most one Pending step, and no Pending step at
\* all while one of its steps is Rejected.
C1_AtMostOnePending ==
    /\ NumberPending <= 1
    /\ SomeStatus(steps, "Rejected") => NumberPending = 0

\* C2: after a completed mutation, in a workflow with no Rejected step and a
\* step that is not Approved, the first step in stepOrder that is not
\* Approved is Pending and every other step that is not Approved is Waiting.
C2_FirstOpenStepIsPending ==
    (/\ MutationCompleted
     /\ wfExists
     /\ ~SomeStatus(Ordered, "Rejected")
     /\ \E i \in 1..Len(Ordered) : Ordered[i].status # "Approved")
    => \E f \in 1..Len(Ordered) :
          /\ \A j \in 1..(f - 1) : Ordered[j].status = "Approved"
          /\ Ordered[f].status = "Pending"
          /\ \A j \in (f + 1)..Len(Ordered) :
                Ordered[j].status \in {"Approved", "Waiting"}

\* C2 witness: an approval has just moved the gate to the third step.
C2_Witness ==
    /\ last = Called("approveNextForRole", "none")
    /\ Len(steps) = 3
    /\ steps[2].status = "Approved"
    /\ steps[3].status = "Pending"

\* The status the claim derives from the steps.
StatusOfSteps ==
    IF \E i \in 1..Len(steps) : steps[i].status = "Rejected" THEN "Rejected"
    ELSE IF \E i \in 1..Len(steps) : steps[i].status = "Pending" THEN "Pending"
    ELSE "Approved"

\* C3: after a completed mutation on a quote that is not Sold, the stored
\* Quote.status is the status derived from the current steps.
C3_StatusInSync ==
    (MutationCompleted /\ quoteStatus # "Sold") => quoteStatus = StatusOfSteps

\* C3 witness: an approval that left later steps open stored Pending.
C3_Witness ==
    /\ last = Called("approveNextForRole", "none")
    /\ quoteStatus = "Pending"
    /\ Len(steps) = 3
    /\ steps[2].status = "Approved"

\* C4: once the quote is Sold, no step of the system changes its stored
\* status to anything else.
C4_SoldIsTerminal == [][quoteStatus = "Sold" => quoteStatus' = "Sold"]_vars

\* C4 witness: a Sold quote whose workflow a later setWorkflow left with a
\* Rejected step.
C4_Witness ==
    /\ quoteStatus = "Sold"
    /\ last = Called("setWorkflow", "none")
    /\ SomeStatus(steps, "Rejected")

\* An approveNextForRole call as role, made now, raises an error and leaves
\* the quote's status and every step row as they are.
ApprovalRefused(role) ==
    LET r == approveNextForRole(CurrentDb, role, Now)
    IN /\ r.err # "none"
       /\ r.db = CurrentDb

\* The Pending step an approval acts on: the first one in stepOrder.
IsPendingStep(i) ==
    /\ i \in 1..Len(Ordered)
    /\ Ordered[i].status = "Pending"
    /\ \A j \in 1..(i - 1) : Ordered[j].status # "Pending"

\* C6: approveNextForRole with a role that differs from the persona of the
\* currently Pending step raises an error and changes no step status,
\* approvedAt, gating timestamp or quote status.
C6_RoleMismatchChangesNothing ==
    \A role \in Roles : \A i \in 1..Len(Ordered) :
        (wfExists /\ IsPendingStep(i) /\ Ordered[i].persona # role)
        => ApprovalRefused(role)

\* C6 witness: such a call was made while a step was Pending.
C6_Witness ==
    /\ last = Called("approveNextForRole", "role_mismatch")
    /\ \E i \in 1..Len(Ordered) : IsPendingStep(i)

\* C7: approveNextForRole on a quote without workflow, or whose workflow has
\* no Pending step, raises an error for every role and changes nothing.
C7_NothingPendingRefused ==
    (~wfExists \/ ~SomeStatus(steps, "Pending"))
    => \A role \in Roles : ApprovalRefused(role)

\* C7 witness: the call was refused on a workflow whose steps are all
\* Approved.
C7_Witness ==
    /\ last = Called("approveNextForRole", "no_pending_step")
    /\ Len(steps) > 0
    /\ \A i \in 1..Len(steps) : steps[i].status = "Approved"

\* C8: while the workflow holds a Rejected step, approveNextForRole fails for
\* every role and no step changes.
C8_RejectedFreezes ==
    (wfExists /\ SomeStatus(steps, "Rejected"))
    => \A role \in Roles : ApprovalRefused(role)

\* The status a setWorkflow input element stores.
StoredStatus(s) == IF s.status = "none" THEN "Waiting" ELSE s.status

\* The new list alters the old list up to its last Approved step: it drops
\* one of those steps, puts another persona in its place or stores another
\* status for it.
AltersApprovedPrefix(old, new) ==
    \E k \in 1..Len(old) :
        /\ old[k].status = "Approved"
        /\ \E i \in 1..k :
              \/ i > Len(new)
              \/ new[i].persona # old[i].persona
              \/ StoredStatus(new[i]) # old[i].status

\* C9: setWorkflow rejects, with an error and without changing the stored
\* steps or quote status, every new list that alters the old list up to its
\* last Approved step.
C9_ApprovedPrefixKept ==
    \A input \in EditInputs :
        (quoteStatus # "Absent" /\ AltersApprovedPrefix(Ordered, input))
        => LET r == setWorkflow(CurrentDb, input, Now)
           IN r.err # "none" /\ r.db = CurrentDb

\* C10: on a freshly created quote with a chain of N steps and no edits,
\* after k successful approvals the first k+1 steps are Approved, the next
\* one is Pending and the rest are Waiting; Quote.status is Pending while
\* k < N-1 and Approved once k = N-1, when every step is Approved.
C10_ApprovalsAdvanceOneStep ==
    hist.pristine =>
        /\ Len(Ordered) = hist.n
        /\ hist.approvals <= hist.n - 1
        /\ \A i \in 1..Len(Ordered) :
              Ordered[i].status =
                 IF i <= hist.approvals + 1 THEN "Approved"
                 ELSE IF i = hist.approvals + 2 THEN "Pending"
                 ELSE "Waiting"
        /\ quoteStatus = IF hist.approvals = hist.n - 1 THEN "Approved" ELSE "Pending"

\* C10 witness: the second approval of a three-step chain has completed.
C10_Witness ==
    /\ hist.pristine
    /\ hist.n = 3
    /\ hist.approvals = 2
    /\ last = Called("approveNextForRole", "none")
    /\ quoteStatus = "Approved"

\* C11: the step of a createQuote call that returns ok leaves one step per
\* persona of the chain it built, numbered by position; step 1 is AE,
\* Approved, with approvedAt set; step 2 is Pending, every later step is
\* Waiting, and Quote.status is Pending.
C11_CreatedWorkflow ==
    [][(creating.pc = "workflow" /\ creating'.pc = "done")
       => /\ wfExists'
          /\ Len(steps') = Len(creating.chain)
          /\ \A i \in 1..Len(creating.chain) :
                /\ steps'[i].stepOrder = i
                /\ steps'[i].persona = creating.chain[i]
                /\ steps'[i].status = IF i = 1 THEN "Approved"
                                      ELSE IF i = 2 THEN "Pending"
                                      ELSE "Waiting"
          /\ steps'[1].persona = "AE"
          /\ steps'[1].approvedAt # NoTime
          /\ quoteStatus' = "Pending"]_vars

\* C11 witness: createQuote has just returned for a chain of three personas
\* and left [Approved, Pending, Waiting].
C11_Witness ==
    /\ last = Called("createQuote", "none")
    /\ quoteStatus = "Pending"
    /\ Len(steps) = 3
    /\ steps[1].status = "Approved" /\ steps[1].approvedAt = Now
    /\ steps[2].persona = "DEALDESK" /\ steps[2].status = "Pending"
    /\ steps[3].persona = "LEGAL" /\ steps[3].status = "Waiting"

\* C12: after every completed mutation the workflow's first step has
\* persona AE and status Approved and its last step has persona LEGAL.
C12_FirstAELastLegal ==
    (MutationCompleted /\ wfExists)
    => /\ Len(Ordered) > 0
       /\ Ordered[1].persona = "AE"
       /\ Ordered[1].status = "Approved"
       /\ Ordered[Len(Ordered)].persona = "LEGAL"

\* C16: a quote is never visible in the store while the createQuote call
\* that persists it has not yet initialized its workflow: a reader finds
\* either no quote or a quote with workflow steps.
C16_QuoteAndWorkflowAtomic ==
    (quoteStatus # "Absent" /\ creating.pc # "done")
    => (wfExists /\ steps # <<>>)

\* ------------------------------------------------------------- SpecConc
\* approveNextForRole calls on the same quote, with no other call beside
\* them: their transactions run statement by statement, as in Spec.

\* The chains createQuote builds.
CreatedChains ==
    {buildApprovalChain(d, k, n) :
        d \in Discounts, k \in PaymentKinds, n \in NetDaysInputs}

\* The store some time after a createQuote call has returned.
InitConc ==
    /\ \E chain \in CreatedChains :
          LET r == createWorkflow(Db("Pending", FALSE, <<>>), chain, Past, Past)
          IN /\ quoteStatus = r.db.status
             /\ wfExists = r.db.wf
             /\ steps = [i \in 1..Len(r.db.rows) |-> WithId(r.db.rows[i], i)]
    /\ creating = [pc |-> "done", chain |-> <<>>]
    /\ last = Called("createQuote", "none")
    /\ hist = NoHist
    /\ txs = NoTxs
    /\ call = NoRequest

NextConc ==
    \/ Tick
    \/ \E t \in Txs :
          \/ ApproveFind(t)
          \/ ApproveNow(t)
          \/ ApproveUpdate(t)
          \/ GateRead(t)
          \/ GateNow(t)
          \/ GateUpdate(t)
          \/ StatusReadQuote(t)
          \/ StatusReadSteps(t)
          \/ StatusUpdate(t)
          \/ Commit(t)

SpecConc == InitConc /\ [][NextConc]_vars

\* C5: two approveNextForRole calls that run concurrently do not both
\* succeed against the same Pending step.
C5_NoDoubleApproval ==
    [][\A t \in Txs :
          (/\ txs[t].kind = "approveNextForRole"
           /\ txs[t].pc = "commit"
           /\ txs'[t].pc = "idle")
          => ~\E i \in 1..Len(steps) :
                 /\ steps[i].id = txs[t].target
                 /\ steps[i].status = "Approved"]_vars

\* ------------------------------------------------------------ SpecCreate
\* One createQuote call, traced from its input to its return: package
\* resolution, payment-term validation, pricing and quote.create, the
\* contract, and the workflow transaction, which runs the statements of
\* Spec one by one while time passes.  The store starts empty and no other
\* call runs beside this one.

\* prepayPercent of the input: none, and two given values.
PrepayInputs == {NoPercent, 0, 50}
\* Seats, package unit prices and resolved add-on prices (cents).
SeatInputs == {1, 3, 50}
UnitPriceInputs == {1, 1999, 2000}
AddOnInputs == {<<>>, <<1000>>, <<999, 1>>}

CreateInput(found, seats, unit, addOns, discount, kind, netDays, prepay) ==
    [pkgFound |-> found, seats |-> seats, unitPrice |-> unit, addOns |-> addOns,
     discountPercent |-> discount, paymentKind |-> kind, netDays |-> netDays,
     prepayPercent |-> prepay]

\* Every discount percent with every combination of package resolution and
\* payment terms, at the prices of a 50-seat order with one add-on.  A
\* discount between two whole percents compares with the tier limits as the
\* next whole percent does.
TermInputs ==
    {CreateInput(found, 50, 2000, <<1000>>, d, kind, netDays, prepay) :
        found \in BOOLEAN, d \in 0..PerCent, kind \in PaymentKinds,
        netDays \in NetDaysInputs, prepay \in PrepayInputs}
\* Every discount percent with every combination of prices, on NET 30 terms.
PriceInputs ==
    {CreateInput(TRUE, seats, unit, addOns, d, "NET", 30, NoPercent) :
        seats \in SeatInputs, unit \in UnitPriceInputs,
        addOns \in AddOnInputs, d \in 0..PerCent}
CreateInputs == TermInputs \cup PriceInputs

\* The columns of the quote row this model follows; before quote.create.
NoQuoteRow == [netDays |-> 0, prepayPercent |-> NoPercent, subtotal |-> 0, total |-> 0]
NoPricing == [subtotal |-> 0, total |-> 0]
CreateCall(input) ==
    [op |-> "createQuote", pc |-> "resolve", input |-> input, err |-> "none",
     quote |-> NoQuoteRow, chain |-> <<>>, pricing |-> NoPricing]

InitCreate ==
    /\ quoteStatus = "Absent"
    /\ wfExists = FALSE
    /\ steps = <<>>
    /\ creating = NoCall
    /\ last = Called("none", "none")
    /\ hist = NoHist
    /\ txs = NoTxs
    /\ \E input \in CreateInputs : call = CreateCall(input)

\* The package lookup and the package_not_found return.
CallResolvePackage ==
    /\ call.op = "createQuote" /\ call.pc = "resolve"
    /\ call' = IF call.input.pkgFound
               THEN [call EXCEPT !.pc = "validate"]
               ELSE [call EXCEPT !.pc = "returned", !.err = "package_not_found"]
    /\ UNCHANGED <<quoteStatus, wfExists, steps, creating, last, hist, txs>>

\* The payment-term checks and the validation_error return.
CallValidateTerms ==
    /\ call.op = "createQuote" /\ call.pc = "validate"
    /\ call' = IF PaymentTermsError(call.input.paymentKind, call.input.netDays,
                                    call.input.prepayPercent # NoPercent)
               THEN [call EXCEPT !.pc = "returned", !.err = "validation_error"]
               ELSE [call EXCEPT !.pc = "persist"]
    /\ UNCHANGED <<quoteStatus, wfExists, steps, creating, last, hist, txs>>

\* Pricing and quote.create.
CallPersistQuote ==
    /\ call.op = "createQuote" /\ call.pc = "persist"
    /\ LET in == call.input
           sub == subtotalNum(in.unitPrice, in.seats, in.addOns)
       IN \E subtotal \in toCurrency(sub) :
          \E total \in toCurrency(totalNum(sub, in.discountPercent)) :
             call' = [call EXCEPT
                        !.pc = "workflow",
                        !.quote = [netDays |-> storedNetDays(in.paymentKind, in.netDays),
                                   prepayPercent |->
                                       storedPrepayPercent(in.paymentKind, in.prepayPercent),
                                   subtotal |-> subtotal,
                                   total |-> total]]
    /\ quoteStatus' = "Pending"
    /\ creating' = [creating EXCEPT !.pc = "persisted"]
    /\ UNCHANGED <<wfExists, steps, last, hist, txs>>

\* const chain = buildApprovalChain(...), after the contract is stored and
\* before the workflow transaction begins.
CallBuildChain ==
    /\ call.op = "createQuote" /\ call.pc = "workflow"
    /\ creating.pc = "contracted" /\ creating.chain = <<>>
    /\ LET in == call.input
           chain == buildApprovalChain(in.discountPercent, in.paymentKind, in.netDays)
       IN /\ creating' = [creating EXCEPT !.chain = chain]
          /\ call' = [call EXCEPT !.chain = chain]
    /\ UNCHANGED <<quoteStatus, wfExists, steps, last, hist, txs>>

\* The workflow transaction has committed: the ok return.  The returned
\* pricing converts the same two doubles that quote.create stored.
CallReturn ==
    /\ call.op = "createQuote" /\ call.pc = "workflow"
    /\ creating.pc = "done"
    /\ call' = [call EXCEPT
                  !.pc = "returned",
                  !.pricing = [subtotal |-> call.quote.subtotal,
                               total |-> call.quote.total]]
    /\ UNCHANGED <<quoteStatus, wfExists, steps, creating, last, hist, txs>>

NextCreate ==
    \/ CallResolvePackage
    \/ CallValidateTerms
    \/ CallPersistQuote
    \/ CreateQuoteContract
    \/ CallBuildChain
    \/ Tick
    \/ \E t \in Txs :
          \/ (creating.chain # <<>> /\ CreateQuoteFind(t))
          \/ WorkflowCreate(t)
          \/ DeleteMany(t)
          \/ CreateQuoteNow(t)
          \/ CreateQuoteCreateStep(t)
          \/ GateRead(t)
          \/ GateNow(t)
          \/ GateUpdate(t)
          \/ StatusReadQuote(t)
          \/ StatusReadSteps(t)
          \/ StatusUpdate(t)
          \/ Commit(t)
    \/ CallReturn

SpecCreate == InitCreate /\ [][NextCreate]_vars

\* --------------------------------------------------- SpecCreate properties
ReturnedOk == call.op = "createQuote" /\ call.pc = "returned" /\ call.err = "none"
QuotePersisted == call.op = "createQuote" /\ quoteStatus # "Absent"
Personas(chain) == {chain[i] : i \in 1..Len(chain)}
\* paymentKind BOTH, or NET with netDays >= 60.
Bespoke(input) ==
    \/ input.paymentKind = "BOTH"
    \/ (input.paymentKind = "NET" /\ input.netDays >= 60)

\* C13: for every bespoke deal and every discount the chain built by
\* createQuote contains FINANCE.
C13_BespokeHasFinance ==
    (ReturnedOk /\ Bespoke(call.input)) => "FINANCE" \in Personas(call.chain)

\* C14: the chain built by createQuote contains DEALDESK iff
\* 0 < discount <= 15, CRO iff 15 < discount <= 40, and for discount > 40
\* FINANCE and not CRO.
C14_DiscountTiers ==
    ReturnedOk =>
        LET d == call.input.discountPercent
            in == Personas(call.chain)
        IN /\ "DEALDESK" \in in <=> (0 < d /\ d <= 15)
           /\ "CRO" \in in <=> (15 < d /\ d <= 40)
           /\ d > 40 => ("FINANCE" \in in /\ "CRO" \notin in)

\* C14 witness: a call with discount 40, the upper limit of the CRO tier,
\* has returned with CRO in its chain.
C14_Witness ==
    /\ ReturnedOk
    /\ call.input.discountPercent = 40
    /\ call.chain = <<"AE", "CRO", "LEGAL">>

\* C15: for every valid input the built chain starts with AE, ends with
\* LEGAL and contains each persona at most once.
C15_ChainShape ==
    ReturnedOk =>
        /\ Len(call.chain) >= 2
        /\ call.chain[1] = "AE"
        /\ call.chain[Len(call.chain)] = "LEGAL"
        /\ \A i, j \in 1..Len(call.chain) : call.chain[i] = call.chain[j] => i = j

\* C15 witness: a call whose discount and whose terms both ask for FINANCE
\* has returned with FINANCE once.
C15_Witness ==
    /\ ReturnedOk
    /\ call.input.discountPercent = 41
    /\ call.input.paymentKind = "BOTH"
    /\ call.chain = <<"AE", "FINANCE", "LEGAL">>

\* The package cannot be resolved, NET comes without netDays, or BOTH comes
\* without netDays or without prepayPercent.
InvalidCreate(input) ==
    \/ ~input.pkgFound
    \/ (input.paymentKind = "NET" /\ input.netDays = 0)
    \/ (input.paymentKind = "BOTH"
        /\ (input.netDays = 0 \/ input.prepayPercent = NoPercent))

\* C17: for such an input createQuote never persists a quote, workflow or
\* step, and what it returns is an error result.
C17_InvalidCreateRefused ==
    (call.op = "createQuote" /\ InvalidCreate(call.input))
    => /\ quoteStatus = "Absent"
       /\ ~wfExists
       /\ steps = <<>>
       /\ call.pc \in {"resolve", "validate", "returned"}
       /\ call.pc = "returned"
             => call.err \in {"package_not_found", "validation_error"}

\* C17 witness: a BOTH call without prepayPercent has returned
\* validation_error.
C17_Witness ==
    /\ call.op = "createQuote" /\ call.pc = "returned"
    /\ call.err = "validation_error"
    /\ call.input.paymentKind = "BOTH"
    /\ call.input.netDays = 30
    /\ call.input.prepayPercent = NoPercent
    /\ quoteStatus = "Absent"

\* C18: the persisted quote has netDays set iff its paymentKind is NET or
\* BOTH and prepayPercent set iff it is PREPAY or BOTH; PREPAY without a
\* given prepayPercent is stored as 100.
C18_TermColumns ==
    QuotePersisted =>
        LET kind == call.input.paymentKind
        IN /\ call.quote.netDays # 0 <=> kind \in {"NET", "BOTH"}
           /\ call.quote.prepayPercent # NoPercent <=> kind \in {"PREPAY", "BOTH"}
           /\ (kind = "PREPAY" /\ call.input.prepayPercent = NoPercent)
                 => call.quote.prepayPercent = 100

\* C18 witness: a PREPAY call that gave netDays and no prepayPercent has
\* stored no netDays and prepayPercent 100.
C18_Witness ==
    /\ ReturnedOk
    /\ call.input.paymentKind = "PREPAY"
    /\ call.input.netDays = 30
    /\ call.input.prepayPercent = NoPercent
    /\ call.quote.netDays = 0
    /\ call.quote.prepayPercent = 100

\* C19: the stored subtotal is unitPrice * seats plus the add-on prices, the
\* stored total is subtotal * (1 - discount / 100) rounded to whole cents
\* (at most half a cent away from it), the total never exceeds the
\* subtotal, and the call returns the two stored amounts.
C19_Pricing ==
    QuotePersisted =>
        LET input == call.input
            cents == input.unitPrice * input.seats + addOnSum(input.addOns)
            exact == cents * (100 - input.discountPercent)
            total == call.quote.total
        IN /\ call.quote.subtotal = cents
           /\ 2 * (100 * total - exact) <= 100
           /\ 2 * (exact - 100 * total) <= 100
           /\ total <= call.quote.subtotal
           /\ ReturnedOk => /\ call.pricing.subtotal = call.quote.subtotal
                            /\ call.pricing.total = total

\* C19 witness: 50 seats at 20.00 with one add-on at 10.00 and 10% discount
\* have returned subtotal 1010.00 and total 909.00.
C19_Witness ==
    /\ ReturnedOk
    /\ call.input.seats = 50
    /\ call.input.unitPrice = 2000
    /\ call.input.addOns = <<1000>>
    /\ call.input.discountPercent = 10
    /\ call.pricing = [subtotal |-> 101000, total |-> 90900]

\* ------------------------------------------------------ findSimilarQuotes
\* A name is a sequence of characters.
toLowerCaseChar(c) ==
    CASE c = "A" -> "a" [] c = "B" -> "b" [] c = "C" -> "c" [] c = "D" -> "d"
      [] OTHER -> c
toLowerCase(s) == [i \in 1..Len(s) |-> toLowerCaseChar(s[i])]
RECURSIVE trimStart(_)
trimStart(s) ==
    IF s # <<>> /\ Head(s) = " " THEN trimStart(Tail(s)) ELSE s
RECURSIVE trimEnd(_)
trimEnd(s) ==
    IF s # <<>> /\ s[Len(s)] = " " THEN trimEnd(SubSeq(s, 1, Len(s) - 1)) ELSE s
trim(s) == trimEnd(trimStart(s))
includes(s, part) ==
    \E i \in 0..(Len(s) - Len(part)) : SubSeq(s, i + 1, i + Len(part)) = part

\* What one rule adds to a candidate's score and reasons.
NoPoints == [score |-> 0, reasons |-> <<>>]
Points(n, label) == [score |-> n, reasons |-> <<label>>]
Abs(n) == IF n < 0 THEN -n ELSE n
Max(a, b) == IF a >= b THEN a ELSE b
Min(a, b) == IF a <= b THEN a ELSE b

\* In a query, packageId "none", productName <<>>, seats 0, discountPercent
\* NoPercent and paymentKind "none" stand for a field that is not given.
packagePoints(params, q) ==
    LET normalizedProduct == toLowerCase(trim(params.productName))
        name == toLowerCase(q.packageName)
    IN IF params.packageId # "none" /\ q.packageId = params.packageId
       THEN Points(4, "same packageId")
       ELSE IF normalizedProduct # <<>>
            THEN (IF name = normalizedProduct
                  THEN Points(3, "exact product name match")
                  ELSE IF includes(name, normalizedProduct)
                       THEN Points(2, "product name contains")
                       ELSE NoPoints)
            ELSE NoPoints

seatBandAbs == 20
seatPoints(params, q) ==
    LET diff == Abs(q.quantity - params.seats)
    IN IF params.seats = 0 THEN NoPoints
       ELSE IF diff = 0 THEN Points(3, "exact seat count")
       ELSE IF diff <= 10 THEN Points(2, "close seat count")
       ELSE IF diff <= seatBandAbs THEN Points(1, "within seat band")
       ELSE NoPoints

\* The allowed difference with provided * 0.1 cut off instead of rounded.
allowed_Truncated(provided) == Max(1, provided \div 10)
\* Math.max(1, Math.round(provided * 0.1)); Math.round rounds a half up.
allowed(provided) == Max(1, (provided + 5) \div 10)
discountPoints(params, q) ==
    LET provided == params.discountPercent
        diff == Abs(q.discountPercent - provided)
    IN IF provided = NoPercent THEN NoPoints
       ELSE IF diff = 0 THEN Points(2, "exact discount")
       ELSE IF diff <= allowed(provided) THEN Points(1, "discount in range")
       ELSE NoPoints

\* `${overlap} add-on overlap`
addOnOverlapLabel(overlap) ==
    CASE overlap = 1 -> "1 add-on overlap" [] overlap = 2 -> "2 add-on overlap"
      [] overlap = 3 -> "3 add-on overlap" [] overlap = 4 -> "4 add-on overlap"
addOnPoints(params, q) ==
    LET normalizedAddOnNames ==
            [i \in 1..Len(params.addOnNames) |-> toLowerCase(trim(params.addOnNames[i]))]
        addOnIdSet == params.addOnIds
        overlap ==
            Cardinality({i \in 1..Len(q.addOns) :
                \/ q.addOns[i].id \in addOnIdSet
                \/ \E k \in 1..Len(normalizedAddOnNames) :
                      includes(toLowerCase(q.addOns[i].name), normalizedAddOnNames[k])})
    IN IF addOnIdSet # {} \/ Len(normalizedAddOnNames) > 0
       THEN (IF overlap > 0
             THEN Points(Min(3, overlap), addOnOverlapLabel(overlap))
             ELSE NoPoints)
       ELSE NoPoints

paymentKindPoints(params, q) ==
    IF params.paymentKind # "none" /\ q.paymentKind = params.paymentKind
    THEN Points(1, "same payment kind")
    ELSE NoPoints

\* daysAgo: the age of the candidate in days.
recentDays == 90
recencyPoints_Strict(q) ==
    IF q.daysAgo < recentDays THEN Points(1, "recent") ELSE NoPoints
recencyPoints(q) ==
    IF q.daysAgo <= recentDays THEN Points(1, "recent") ELSE NoPoints

\* The callback of candidates.map: { q, score, reasons }.
scoreCandidate(params, q) ==
    LET parts == <<packagePoints(params, q), seatPoints(params, q),
                   discountPoints(params, q), addOnPoints(params, q),
                   paymentKindPoints(params, q), recencyPoints(q)>>
    IN [q |-> q,
        score |-> parts[1].score + parts[2].score + parts[3].score
                  + parts[4].score + parts[5].score + parts[6].score,
        reasons |-> parts[1].reasons \o parts[2].reasons \o parts[3].reasons
                    \o parts[4].reasons \o parts[5].reasons \o parts[6].reasons]

\* findMany: quotes Approved or Sold, created within the window, the most
\* recent first, at most candidateCap of them.
windowDays == 365
candidateCap == 200
RECURSIVE insertByCreatedAt(_, _)
insertByCreatedAt(x, sorted) ==
    IF sorted = <<>> THEN <<x>>
    ELSE IF x.daysAgo < Head(sorted).daysAgo THEN <<x>> \o sorted
    ELSE <<Head(sorted)>> \o insertByCreatedAt(x, Tail(sorted))
RECURSIVE orderByCreatedAtDesc(_)
orderByCreatedAtDesc(quotes) ==
    IF quotes = <<>> THEN <<>>
    ELSE insertByCreatedAt(quotes[Len(quotes)],
                           orderByCreatedAtDesc(SubSeq(quotes, 1, Len(quotes) - 1)))
IsCandidate(q) == q.daysAgo <= windowDays /\ q.status \in {"Approved", "Sold"}
findCandidates(quotes) ==
    LET found == orderByCreatedAtDesc(SelectSeq(quotes, IsCandidate))
    IN SubSeq(found, 1, Min(candidateCap, Len(found)))

\* scored.filter(score > 0).sort(score desc, createdAt desc).slice(0, 10)
resultCap == 10
\* The comparator with equal scores ordered oldest first.
RanksBefore_OldestFirst(a, b) ==
    \/ a.score > b.score
    \/ (a.score = b.score /\ a.q.daysAgo > b.q.daysAgo)
RanksBefore(a, b) ==
    \/ a.score > b.score
    \/ (a.score = b.score /\ a.q.daysAgo < b.q.daysAgo)
RECURSIVE insertRanked(_, _)
insertRanked(x, sorted) ==
    IF sorted = <<>> THEN <<x>>
    ELSE IF RanksBefore(x, Head(sorted)) THEN <<x>> \o sorted
    ELSE <<Head(sorted)>> \o insertRanked(x, Tail(sorted))
RECURSIVE sortRanked(_)
sortRanked(scored) ==
    IF scored = <<>> THEN <<>>
    ELSE insertRanked(scored[Len(scored)],
                      sortRanked(SubSeq(scored, 1, Len(scored) - 1)))
HasScore(e) == e.score > 0
rankScored(scored) ==
    LET sorted == sortRanked(SelectSeq(scored, HasScore))
    IN SubSeq(sorted, 1, Min(resultCap, Len(sorted)))

\* ------------------------------------------------------------ SpecSimilar
\* One findSimilarQuotes query against a store of quotes.  A store is the
\* list of its quote rows; two equal rows are two quotes.

\* Packages and add-ons of the catalog, with their names.
PackageName(id) == IF id = "X" THEN <<"A", "b">> ELSE <<"a", "b", "c">>
AddOnRow(id) ==
    [id |-> id,
     name |-> CASE id = "a1" -> <<"C", "d">> [] id = "a2" -> <<"c", "d", "e">>
                [] id = "a3" -> <<"e">> [] id = "a4" -> <<"f">>]
\* The add-ons connected to a stored quote.
QuoteAddOns == {<<AddOnRow("a2")>>,
                <<AddOnRow("a1"), AddOnRow("a2"), AddOnRow("a3"), AddOnRow("a4")>>}

StoredQuote(pkg, quantity, discount, addOns, kind, status, daysAgo) ==
    [packageId |-> pkg, packageName |-> PackageName(pkg), quantity |-> quantity,
     discountPercent |-> discount, addOns |-> addOns, paymentKind |-> kind,
     status |-> status, daysAgo |-> daysAgo]
\* Approved quotes on both sides of every limit of the seat, discount and
\* recency rules for the queries below.
ApprovedQuotes ==
    {StoredQuote(pkg, quantity, discount, addOns, kind, "Approved", daysAgo) :
        pkg \in {"X", "Y"}, quantity \in {48, 50, 58, 59, 68, 69},
        discount \in {0, 1, 2, 22, 25, 29}, addOns \in QuoteAddOns,
        kind \in {"NET", "PREPAY"}, daysAgo \in {1, 90, 91}}
\* Quotes of every status, inside and outside the window.
OtherQuotes ==
    {StoredQuote("X", 50, 25, <<AddOnRow("a2")>>, "NET", status, daysAgo) :
        status \in {"Pending", "Approved", "Rejected", "Sold"},
        daysAgo \in {1, 365, 366}}

\* Stores of several quotes: up to MaxExtra quotes that score high, low or
\* nothing against a query for package X with 48 seats, alone or next to as
\* many equal quotes as one result page holds.
RankedQuotes ==
    {StoredQuote(pkg, quantity, 25, <<AddOnRow("a2")>>, "NET", "Approved", daysAgo) :
        pkg \in {"X", "Y"}, quantity \in {48, 69}, daysAgo \in {1, 90, 91}}
PageOfQuotes ==
    [i \in 1..resultCap |->
        StoredQuote("X", 58, 25, <<AddOnRow("a2")>>, "NET", "Approved", 90)]
RankedStores ==
    LET few == UNION {[1..n -> RankedQuotes] : n \in 0..MaxExtra}
    IN few \cup {quotes \o PageOfQuotes : quotes \in few}

SimilarQuery(pkg, name, seats, discount, ids, names, kind) ==
    [packageId |-> pkg, productName |-> name, seats |-> seats,
     discountPercent |-> discount, addOnIds |-> ids, addOnNames |-> names,
     paymentKind |-> kind]
SimilarQueries ==
    {SimilarQuery(pkg, name, seats, discount, ids, names, kind) :
        pkg \in {"none", "X"}, name \in {<<>>, <<" ", "A", "B">>},
        seats \in {0, 48}, discount \in {NoPercent, 0, 25},
        ids \in {{}, {"a1", "a3", "a4"}}, names \in {<<>>, << <<"c", "D", " ">> >>},
        kind \in {"none", "NET"}}

SimilarCall(params, quotes) ==
    [op |-> "findSimilarQuotes", pc |-> "query", params |-> params,
     quotes |-> quotes, scored |-> <<>>, results |-> <<>>]

InitSimilar ==
    /\ quoteStatus = "Absent"
    /\ wfExists = FALSE
    /\ steps = <<>>
    /\ creating = NoCall
    /\ last = Called("none", "none")
    /\ hist = NoHist
    /\ txs = NoTxs
    /\ \E params \in SimilarQueries :
          \/ \E q \in ApprovedQuotes : call = SimilarCall(params, <<q>>)
          \/ \E q \in OtherQuotes :
                /\ params.packageId = "X" /\ params.seats = 48
                /\ call = SimilarCall(params, <<q>>)
          \/ \E quotes \in RankedStores :
                /\ params.packageId = "X" /\ params.seats = 48
                /\ params.discountPercent = NoPercent
                /\ params.addOnIds = {} /\ params.addOnNames = <<>>
                /\ call = SimilarCall(params, quotes)

\* findSimilarQuotes(params)
FindSimilarQuotes ==
    /\ call.op = "findSimilarQuotes" /\ call.pc = "query"
    /\ LET candidates == findCandidates(call.quotes)
           scored == [i \in 1..Len(candidates) |->
                         scoreCandidate(call.params, candidates[i])]
       IN call' = [call EXCEPT !.pc = "returned",
                               !.scored = scored,
                               !.results = rankScored(scored)]
    /\ UNCHANGED <<quoteStatus, wfExists, steps, creating, last, hist, txs>>

NextSimilar == FindSimilarQuotes

SpecSimilar == InitSimilar /\ [][NextSimilar]_vars

\* --------------------------------------------------- SpecSimilar properties
\* The contributions the claim lists, for query P and candidate q.
SeatContribution(P, q) ==
    LET diff == Abs(q.quantity - P.seats)
    IN IF P.seats = 0 THEN 0
       ELSE IF diff = 0 THEN 3
       ELSE IF diff \in 1..10 THEN 2
       ELSE IF diff \in 11..20 THEN 1
       ELSE 0
DiscountContribution(P, q) ==
    LET diff == Abs(q.discountPercent - P.discountPercent)
        tenth == (P.discountPercent + 5) \div 10
    IN IF P.discountPercent = NoPercent THEN 0
       ELSE IF diff = 0 THEN 2
       ELSE IF diff <= (IF tenth > 1 THEN tenth ELSE 1) THEN 1
       ELSE 0
\* The add-ons of q that the query names by id or by a part of their name.
OverlappingAddOns(P, q) ==
    {i \in 1..Len(q.addOns) :
        \/ q.addOns[i].id \in P.addOnIds
        \/ \E k \in 1..Len(P.addOnNames) :
              includes(toLowerCase(q.addOns[i].name),
                       toLowerCase(trim(P.addOnNames[k])))}
AddOnContribution(P, q) ==
    LET n == Cardinality(OverlappingAddOns(P, q))
    IN IF n > 3 THEN 3 ELSE n
PaymentKindContribution(P, q) ==
    IF P.paymentKind # "none" /\ P.paymentKind = q.paymentKind THEN 1 ELSE 0
RecencyContribution(q) == IF q.daysAgo <= 90 THEN 1 ELSE 0
\* The labels of the contributions that fired.
ContributionLabels(P, q) ==
    (CASE SeatContribution(P, q) = 3 -> {"exact seat count"}
       [] SeatContribution(P, q) = 2 -> {"close seat count"}
       [] SeatContribution(P, q) = 1 -> {"within seat band"}
       [] OTHER -> {})
    \cup (CASE DiscountContribution(P, q) = 2 -> {"exact discount"}
            [] DiscountContribution(P, q) = 1 -> {"discount in range"}
            [] OTHER -> {})
    \cup (IF AddOnContribution(P, q) > 0
          THEN {addOnOverlapLabel(Cardinality(OverlappingAddOns(P, q)))}
          ELSE {})
    \cup (IF PaymentKindContribution(P, q) = 1 THEN {"same payment kind"} ELSE {})
    \cup (IF RecencyContribution(q) = 1 THEN {"recent"} ELSE {})
\* The labels and points of the package rule.
PackageLabels == {"same packageId", "exact product name match", "product name contains"}
PackagePointsOf(reasons) ==
    IF \E i \in 1..Len(reasons) : reasons[i] = "same packageId" THEN 4
    ELSE IF \E i \in 1..Len(reasons) : reasons[i] = "exact product name match" THEN 3
    ELSE IF \E i \in 1..Len(reasons) : reasons[i] = "product name contains" THEN 2
    ELSE 0

\* C20: the score of every candidate is the points of the package rule plus
\* the seat, discount, add-on, payment-kind and recency contributions, and
\* its reasons hold, besides the label of the package rule, exactly one
\* label per contribution that fired.
C20_ScoreIsSumOfContributions ==
    (call.op = "findSimilarQuotes" /\ call.pc = "returned") =>
        \A e \in {call.scored[i] : i \in 1..Len(call.scored)} :
            LET P == call.params
                labels == {e.reasons[i] : i \in 1..Len(e.reasons)}
            IN /\ e.score = PackagePointsOf(e.reasons)
                            + SeatContribution(P, e.q) + DiscountContribution(P, e.q)
                            + AddOnContribution(P, e.q) + PaymentKindContribution(P, e.q)
                            + RecencyContribution(e.q)
               /\ labels \ PackageLabels = ContributionLabels(P, e.q)
               /\ Cardinality(labels) = Len(e.reasons)
               /\ Cardinality(labels \cap PackageLabels) <= 1

\* C20 witness: the query packageId X, seats 48, discount 25 against a
\* candidate of package X with 50 seats and discount 25, created yesterday,
\* has returned it with score 9 and the four reasons.
C20_Witness ==
    /\ call.op = "findSimilarQuotes" /\ call.pc = "returned"
    /\ call.params.packageId = "X" /\ call.params.seats = 48
    /\ call.params.discountPercent = 25
    /\ Len(call.results) = 1
    /\ call.results[1].q.quantity = 50
    /\ call.results[1].q.daysAgo = 1
    /\ call.results[1].score = 9
    /\ call.results[1].reasons =
          <<"same packageId", "close seat count", "exact discount", "recent">>

\* C21: a candidate gets no points from the package rules when the query
\* carries a packageId that is not the candidate's, whatever its
\* productName: the name rules contribute only to queries without packageId.
C21_NameRulesOnlyWithoutPackageId ==
    (call.op = "findSimilarQuotes" /\ call.pc = "returned") =>
        \A e \in {call.scored[i] : i \in 1..Len(call.scored)} :
            (call.params.packageId # "none" /\ call.params.packageId # e.q.packageId)
            => /\ PackagePointsOf(e.reasons) = 0
               /\ \A i \in 1..Len(e.reasons) : e.reasons[i] \notin PackageLabels

\* How many times e occurs in seq.
Count(seq, e) == Cardinality({i \in 1..Len(seq) : seq[i] = e})

\* C22: findSimilarQuotes returns at most 10 of the scored candidates, none
\* with score 0, ordered by score descending and, among equal scores, by
\* createdAt descending; a candidate that is not returned has score 0 or no
\* higher score than any returned one, and is dropped for the limit only
\* when 10 are returned.
C22_RankedResults ==
    (call.op = "findSimilarQuotes" /\ call.pc = "returned") =>
        LET res == call.results
            scored == {call.scored[i] : i \in 1..Len(call.scored)}
        IN /\ Len(res) <= 10
           /\ \A i \in 1..Len(res) : res[i].score > 0 /\ res[i] \in scored
           /\ \A i, j \in 1..Len(res) :
                 i < j => \/ res[i].score > res[j].score
                          \/ /\ res[i].score = res[j].score
                             /\ res[i].q.daysAgo <= res[j].q.daysAgo
           /\ \A e \in scored :
                 /\ Count(res, e) <= Count(call.scored, e)
                 /\ Count(res, e) < Count(call.scored, e)
                       => /\ \A i \in 1..Len(res) : e.score <= res[i].score
                          /\ e.score > 0 => Len(res) = 10

\* C22 witness: of twelve candidates with a score, the ten returned start
\* with two of equal score, the more recent one first, and two are dropped.
C22_Witness ==
    /\ call.op = "findSimilarQuotes" /\ call.pc = "returned"
    /\ Len(call.scored) = 12
    /\ \A i \in 1..12 : call.scored[i].score > 0
    /\ Len(call.results) = 10
    /\ call.results[1].score = call.results[2].score
    /\ call.results[1].q.daysAgo < call.results[2].q.daysAgo
    /\ call.results[2].score > call.results[3].score

\* C30: a candidate created within the last 90 days scores at least 1 and
\* carries the reason "recent", so it is among the results unless ten
\* candidates rank before it; a returned candidate older than 90 days has
\* points from the package, seat, discount, add-on or payment-kind rule.
C30_RecencyKeepsCandidate ==
    (call.op = "findSimilarQuotes" /\ call.pc = "returned") =>
        LET P == call.params
            res == call.results
        IN /\ \A i \in 1..Len(call.scored) :
                 LET e == call.scored[i]
                 IN e.q.daysAgo <= 90 =>
                       /\ e.score >= 1
                       /\ \E k \in 1..Len(e.reasons) : e.reasons[k] = "recent"
                       /\ Len(call.scored) <= 10 => \E j \in 1..Len(res) : res[j] = e
           /\ \A j \in 1..Len(res) :
                 res[j].q.daysAgo > 90 =>
                    \/ PackagePointsOf(res[j].reasons) > 0
                    \/ SeatContribution(P, res[j].q) > 0
                    \/ DiscountContribution(P, res[j].q) > 0
                    \/ AddOnContribution(P, res[j].q) > 0
                    \/ PaymentKindContribution(P, res[j].q) > 0

\* C30 witness: of two candidates that match no field of the query, the one
\* created 90 days ago is returned with score 1 for "recent" and the one
\* created 91 days ago is not returned.
C30_Witness ==
    /\ call.op = "findSimilarQuotes" /\ call.pc = "returned"
    /\ Len(call.scored) = 2
    /\ call.scored[1].q.daysAgo = 90 /\ call.scored[2].q.daysAgo = 91
    /\ call.scored[2].score = 0
    /\ Len(call.results) = 1
    /\ call.results[1].q.daysAgo = 90
    /\ call.results[1].score = 1
    /\ call.results[1].reasons = <<"recent">>

\* ----------------------------------------------------------- SpecHelpers
\* recomputeWorkflowGating and updateQuoteStatus run, in any order and up to
\* twice each, on a quote with any stored status and any list of steps.
\* Each run is a transaction that calls the helper and commits; its
\* statements are those of Spec, and time passes between them.  One run is
\* in flight at a time.

AnyQuoteStatuses == {"Pending", "Approved", "Rejected", "Sold"}
\* Step rows numbered by position, with any status and with or without a
\* gating timestamp.
AnyStepRows ==
    LET shapes == UNION {[1..n -> [status : ApprovalStatuses,
                                   updatedAt : {NoTime, Past}]] :
                            n \in 0..MaxSteps}
    IN {[i \in 1..Len(sh) |->
            Step(i, IF i = 1 THEN "AE" ELSE "LEGAL", sh[i].status,
                 IF sh[i].status = "Approved" THEN Past ELSE NoTime,
                 sh[i].updatedAt)] : sh \in shapes}

\* status0, rows0: the store at the start; gateRuns, statusRuns: the runs of
\* each helper (statusRuns since the steps last changed); gated: the rows
\* the first gating run left.
HelperCall(status, rows) ==
    [op |-> "helpers", status0 |-> status, rows0 |-> rows,
     gateRuns |-> 0, gated |-> <<>>, statusRuns |-> 0]

InitHelpers ==
    /\ quoteStatus \in AnyQuoteStatuses
    /\ wfExists \in BOOLEAN
    /\ steps \in {[i \in 1..Len(rows) |-> WithId(rows[i], i)] : rows \in AnyStepRows}
    /\ ~wfExists => steps = <<>>
    /\ creating = NoCall
    /\ last = Called("none", "none")
    /\ hist = NoHist
    /\ txs = NoTxs
    /\ call = HelperCall(quoteStatus, steps)

\* A transaction calls recomputeWorkflowGating(tx, quoteId).
GatingBegins(t) ==
    /\ call.op = "helpers" /\ call.gateRuns < 2
    /\ FreeSlot(t) /\ txs = NoTxs
    /\ txs' = [txs EXCEPT ![t] = [NoTx EXCEPT !.kind = "recomputeWorkflowGating",
                                              !.pc = "gateRead"]]
    /\ UNCHANGED <<quoteStatus, wfExists, steps, creating, last, hist, call>>

\* recomputeWorkflowGating has returned and the transaction commits.
GatingReturns(t) ==
    /\ txs[t].kind = "recomputeWorkflowGating" /\ txs[t].pc = "statusQuote"
    /\ steps' = ViewRows(t)
    /\ txs' = [txs EXCEPT ![t] = NoTx]
    /\ call' = [call EXCEPT
                  !.gateRuns = @ + 1,
                  !.gated = IF call.gateRuns = 0 THEN ViewRows(t) ELSE @,
                  !.statusRuns = IF ViewRows(t) = steps THEN @ ELSE 0]
    /\ UNCHANGED <<quoteStatus, wfExists, creating, last, hist>>

\* A transaction calls updateQuoteStatus(tx, quoteId).
StatusBegins(t) ==
    /\ call.op = "helpers" /\ call.statusRuns < 2
    /\ FreeSlot(t) /\ txs = NoTxs
    /\ txs' = [txs EXCEPT ![t] = [NoTx EXCEPT !.kind = "updateQuoteStatus",
                                              !.pc = "statusQuote"]]
    /\ UNCHANGED <<quoteStatus, wfExists, steps, creating, last, hist, call>>

\* updateQuoteStatus has returned and the transaction commits.
StatusReturns(t) ==
    /\ txs[t].kind = "updateQuoteStatus" /\ txs[t].pc = "commit"
    /\ quoteStatus' = IF txs[t].status # "none" THEN txs[t].status ELSE quoteStatus
    /\ txs' = [txs EXCEPT ![t] = NoTx]
    /\ call' = [call EXCEPT !.statusRuns = @ + 1]
    /\ UNCHANGED <<wfExists, steps, creating, last, hist>>

\* Time passes, between two runs or between two statements of a run.
HelpersTick ==
    /\ call.op = "helpers"
    /\ \/ AgedRowsOf(steps) # steps
       \/ \E t \in Txs : AgedTx(txs[t]) # txs[t]
    /\ steps' = AgedRowsOf(steps)
    /\ txs' = [t \in Txs |-> AgedTx(txs[t])]
    /\ call' = [call EXCEPT !.gated = AgedRowsOf(@)]
    /\ UNCHANGED <<quoteStatus, wfExists, creating, last, hist>>

NextHelpers ==
    \/ HelpersTick
    \/ \E t \in Txs :
          \/ GatingBegins(t)
          \/ GateRead(t)
          \/ GateNow(t)
          \/ GateUpdate(t)
          \/ GatingReturns(t)
          \/ StatusBegins(t)
          \/ (txs[t].kind = "updateQuoteStatus" /\ StatusReadQuote(t))
          \/ StatusReadSteps(t)
          \/ StatusUpdate(t)
          \/ StatusReturns(t)

SpecHelpers == InitHelpers /\ [][NextHelpers]_vars

\* C23: after a second gating run the step rows, statuses and gating
\* timestamps, are those the first run left.
C23_GatingIdempotent ==
    (call.op = "helpers" /\ call.gateRuns = 2) => steps = call.gated

\* C23 witness: the first run promoted a Waiting step and demoted a Pending
\* one, time passed, and the second run has completed.
C23_Witness ==
    /\ call.op = "helpers" /\ call.gateRuns = 2
    /\ Len(steps) = 3
    /\ call.rows0[2].status = "Waiting" /\ call.rows0[3].status = "Pending"
    /\ steps[1].status = "Approved"
    /\ steps[2].status = "Pending" /\ steps[2].updatedAt = Past
    /\ steps[3].status = "Waiting" /\ steps[3].updatedAt = NoTime

\* Number of steps with the given status.
NumberWith(status) == Cardinality({i \in 1..Len(steps) : steps[i].status = status})

\* C27: the status the derivation stores is Sold for a Sold quote and
\* otherwise Rejected if the number of Rejected steps is not 0, else Pending
\* if the number of Pending steps is not 0, else Approved; a second run
\* without a step change stores the same status.
C27_StatusDerivation ==
    (call.op = "helpers" /\ call.statusRuns >= 1)
    => quoteStatus = IF call.status0 = "Sold" THEN "Sold"
                     ELSE IF NumberWith("Rejected") > 0 THEN "Rejected"
                     ELSE IF NumberWith("Pending") > 0 THEN "Pending"
                     ELSE "Approved"

\* C27 witness: the derivation has run twice on steps with a Rejected and a
\* Pending one and has replaced a stored Approved by Rejected.
C27_Witness ==
    /\ call.op = "helpers" /\ call.statusRuns = 2
    /\ call.status0 = "Approved"
    /\ NumberWith("Rejected") > 0 /\ NumberWith("Pending") > 0
    /\ quoteStatus = "Rejected"

\* ------------------------------------------------- properties of Spec (2)
\* C24: a step that is Approved or Rejected has the same status after every
\* step of the system; a step is the row at a position with its persona.
C24_TerminalStepsStay ==
    [][\A i \in 1..Len(steps) :
          (/\ steps[i].status \in {"Approved", "Rejected"}
           /\ i <= Len(steps')
           /\ steps'[i].persona = steps[i].persona)
          => steps'[i].status = steps[i].status]_vars

\* Transaction t runs the approvalStep.update at the head of its gating plan.
GateUpdateRuns(t) ==
    /\ txs[t].pc = "gateUpdate"
    /\ txs'[t].pc # "idle"
    /\ txs'[t].plan = Tail(txs[t].plan)

\* C25: after a completed mutation every Waiting step has updatedAt null
\* and every Pending step has updatedAt set; a gating run on the stored
\* steps leaves every step that is and stays Pending with the updatedAt it
\* has; no gating update of any transaction writes a timestamp to a stored
\* step that is Pending and has one; and no step of the system other than
\* the passing of time gives a stored step that is and stays Pending
\* another updatedAt.
C25_GatingTimestamps ==
    /\ [](MutationCompleted =>
             \A i \in 1..Len(steps) :
                 /\ steps[i].status = "Waiting" => steps[i].updatedAt = NoTime
                 /\ steps[i].status = "Pending" => steps[i].updatedAt # NoTime)
    /\ [](wfExists =>
             LET gated == recomputeWorkflowGating(TRUE, Ordered, LoopNow)
             IN \A i \in 1..Len(Ordered) :
                   (/\ Ordered[i].status = "Pending"
                    /\ Ordered[i].updatedAt # NoTime
                    /\ gated[i].status = "Pending")
                   => gated[i].updatedAt = Ordered[i].updatedAt)
    /\ [][\A t \in Txs :
             (GateUpdateRuns(t) /\ Head(txs[t].plan).updatedAt = "now")
             => ~\E i \in 1..Len(steps) :
                    /\ steps[i].id = Head(txs[t].plan).id
                    /\ steps[i].status = "Pending"
                    /\ steps[i].updatedAt # NoTime]_vars
    /\ [][\A i \in 1..Len(steps) : \A j \in 1..Len(steps') :
             (/\ steps'[j].id = steps[i].id
              /\ steps[i].status = "Pending" /\ steps[i].updatedAt # NoTime
              /\ steps'[j].status = "Pending")
             => steps'[j].updatedAt = IF Tick THEN Aged(steps[i].updatedAt)
                                      ELSE steps[i].updatedAt]_vars

\* C25 witness: a setWorkflow call has left a Pending step with its
\* timestamp and a Waiting step without one.
C25_Witness ==
    /\ last = Called("setWorkflow", "none")
    /\ Len(steps) = 2
    /\ steps[1].status = "Pending" /\ steps[1].updatedAt = Now
    /\ steps[2].status = "Waiting" /\ steps[2].updatedAt = NoTime

\* C26: after a completed mutation the stepOrder values are 1..N in the
\* order of the rows; and setWorkflow stores, for a list of any length, one
\* row per element, numbered by its position, with the element's persona.
C26_StepOrderContiguous ==
    /\ (MutationCompleted /\ wfExists)
          => \A i \in 1..Len(steps) : steps[i].stepOrder = i
    /\ quoteStatus # "Absent" =>
          \A input \in EditInputs :
              LET rows == setWorkflow(CurrentDb, input, Now).db.rows
              IN /\ Len(rows) = Len(input)
                 /\ \A i \in 1..Len(input) :
                       /\ rows[i].stepOrder = i
                       /\ rows[i].persona = input[i].persona

\* C29: every Approved step has approvedAt set, and every step with
\* approvedAt set is Approved or Rejected.
C29_ApprovedAtMatchesStatus ==
    \A i \in 1..Len(steps) :
        /\ steps[i].status = "Approved" => steps[i].approvedAt # NoTime
        /\ steps[i].approvedAt # NoTime => steps[i].status \in {"Approved", "Rejected"}

\* -------------------------------------------------------------- SpecQueue
\* pendingByRole queries and approveNextForRole calls on the store that a
\* createQuote call has left: after quote.create, after its workflow
\* transaction, or after one setWorkflow call that followed.  The approvals
\* run statement by statement, as in Spec; a call that is refused is
\* recorded in last.

\* input.steps of the setWorkflow call.
QueueStepInputs == [persona : EditPersonas, status : {"none", "Pending", "Rejected"}]
QueueInputs == UNION {[1..n -> QueueStepInputs] : n \in 0..MaxSteps}

QueueCall(role, quotes) == [op |-> "queue", role |-> role, quotes |-> quotes]

\* The stores the two calls leave when no other call runs beside them.
\* createQuote takes the approvedAt of its AE step before the instant of
\* its gating run, or at the same one.
QueueStores ==
    LET Persisted == Db("Pending", FALSE, <<>>)
        Created == {createWorkflow(Persisted, chain, approvedAt, Now).db :
                       chain \in CreatedChains, approvedAt \in {Past, Now}}
    IN {Persisted} \cup Created
       \cup {setWorkflow(db, input, Now).db :
                 db \in Created, input \in QueueInputs}

InitQueue ==
    \E db \in QueueStores :
        /\ quoteStatus = db.status
        /\ wfExists = db.wf
        /\ steps = [i \in 1..Len(db.rows) |-> WithId(db.rows[i], i)]
        /\ creating = [pc |-> IF db.wf THEN "done" ELSE "persisted",
                       chain |-> <<>>]
        /\ last = Called("none", "none")
        /\ hist = NoHist
        /\ txs = NoTxs
        /\ call = QueueCall("none", {})

\* pendingByRole({role})
PendingByRole ==
    \E role \in Roles :
        /\ call.op = "queue"
        /\ call' = [call EXCEPT !.role = role,
                                !.quotes = pendingByRole(CurrentDb, role)]
        /\ last' = Called("pendingByRole", "none")
        /\ UNCHANGED <<quoteStatus, wfExists, steps, creating, hist, txs>>

NextQueue ==
    \/ Tick
    \/ PendingByRole
    \/ \E t \in Txs :
          \/ ApproveFind(t)
          \/ ApproveNow(t)
          \/ ApproveUpdate(t)
          \/ GateRead(t)
          \/ GateNow(t)
          \/ GateUpdate(t)
          \/ StatusReadQuote(t)
          \/ StatusReadSteps(t)
          \/ StatusUpdate(t)
          \/ Commit(t)

SpecQueue == InitQueue /\ [][NextQueue]_vars

\* C28: the quote is in the queue of a role exactly when its status is
\* Pending and its first Pending step has that persona; it is in the queue
\* of at most one role; and approveNextForRole succeeds for a role exactly
\* when the workflow has a Pending step with that persona.
C28_QueueMatchesApproval ==
    /\ \A role \in Roles :
          (TheQuote \in pendingByRole(CurrentDb, role))
          <=> (/\ quoteStatus = "Pending"
               /\ \E i \in 1..Len(steps) :
                     /\ steps[i].status = "Pending" /\ steps[i].persona = role
                     /\ \A j \in 1..(i - 1) : steps[j].status # "Pending")
    /\ Cardinality({role \in Roles : TheQuote \in pendingByRole(CurrentDb, role)}) <= 1
    /\ last.op = "pendingByRole"
          => call.quotes = pendingByRole(CurrentDb, call.role)
    /\ \A role \in Roles :
          (approveNextForRole(CurrentDb, role, Now).err = "none")
          <=> (wfExists /\ \E i \in 1..Len(steps) :
                              steps[i].status = "Pending" /\ steps[i].persona = role)

====
